---- MODULE Spec2Model ----
(***************************************************************************)
(* Session state coordinator of the Tenjin chat workspace (MainApp.tsx):   *)
(* the React state of MainApp, its event handlers, the derived visible     *)
(* message list, the jump-to-message navigation, the pin and expand        *)
(* buttons and the message menu of ChatArea, the sending of a message     *)
(* with its reply, and the n8n service behind it: the outbound send and   *)
(* the session and authentication items of the browser storage.           *)
(*                                                                         *)
(* Every handler runs to completion between two renders, so one action     *)
(* reads the state of the last render and installs all the state updates   *)
(* the handler queued.                                                     *)
(***************************************************************************)
EXTENDS Integers, Sequences, FiniteSets, TLC

VARIABLES
    messages,               \* useState<Message[]>            MainApp.tsx:12
    questions,              \* useState<QuestionItem[]>       MainApp.tsx:15
    folders,                \* useState<string[]>             MainApp.tsx:16
    currentConversationId,  \* useState<string | null>        MainApp.tsx:19
    isNewChatMode,          \* useState(true)                 MainApp.tsx:20
    activeFolder,           \* useState<string>('General')    MainApp.tsx:21
    pending,                \* the requests in flight (ChatArea)
    sessionStorage,         \* the items of window.sessionStorage
    localStorage,           \* the items of window.localStorage
    returned,               \* value returned by the last handler call
    scrolledTo,             \* row the last handler call scrolled into view
    lastOp,                 \* the last handler call and its arguments
    pre                     \* the React state that call started from

state == <<messages, questions, folders, currentConversationId,
           isNewChatMode, activeFolder>>
vars == <<messages, questions, folders, currentConversationId,
          isNewChatMode, activeFolder, pending, sessionStorage, localStorage,
          returned, scrolledTo, lastOp, pre>>

-----------------------------------------------------------------------------
(* Bounds of the model.                                                    *)

MaxMsgs == 2         \* messages in the seeded store
MaxQuestions == 2    \* registry length up to which a conversation is created
MaxClock == 1        \* readings of Date.now(): 1..MaxClock
MaxSends == 1        \* messages the user sends
MaxOver == 1         \* question texts are up to MaxOver around the title limit
MaxRandom == 2       \* values of Math.random(): 1..MaxRandom

\* the store holds the seeded messages and a user and an ai message per send
MaxStore == MaxMsgs + 2 * MaxSends

-----------------------------------------------------------------------------
(* Values.                                                                 *)

null == <<>>                       \* JavaScript null / undefined of an id
NoFolder == ""                     \* a falsy folder (QuestionItem.folder?)
MsgId(i) == <<"m", i>>             \* a message id
SeedConvId(k) == <<"s", k>>        \* id of a seeded conversation
QId(t) == <<"q", t>>               \* `q${Date.now()}`
TitleMax == 80                     \* MainApp.tsx:55

InitialFolders == <<"General", "Follow-ups", "Notes">>
ProjectNames == {"Research", "General"}

\* Strings are sequences of characters. Question texts and new titles are
\* typed by the user; the seeded conversation is titled Text(1).
Text(n) == [i \in 1..n |-> "x"]
Texts == {Text(2)}
NewTitles == Texts
ReplyTexts == {Text(1)}

\* Question texts whose characters differ by position, of 40 and of 100
\* characters and of the lengths around the title limit.
Digits == <<"0", "1", "2", "3", "4", "5", "6", "7", "8", "9">>
QuestionText(n) == [i \in 1..n |-> Digits[(i % 10) + 1]]
QuestionTexts ==
    {QuestionText(n) :
        n \in {40, 100} \cup ((TitleMax - MaxOver)..(TitleMax + MaxOver))}

Min(a, b) == IF a < b THEN a ELSE b

\* String.prototype.slice(0, n)
slice(s, n) == SubSeq(s, 1, Min(n, Len(s)))

\* Array.prototype.includes
includes(arr, x) == \E i \in 1..Len(arr) : arr[i] = x

\* arr.findIndex((m) => m.id === id): the 0-based index of the first element
\* with that id, -1 when there is none
findIndexById(arr, id) ==
    IF \E i \in 1..Len(arr) : arr[i].id = id
    THEN (CHOOSE i \in 1..Len(arr) :
              arr[i].id = id /\ \A j \in 1..(i - 1) : arr[j].id # id) - 1
    ELSE -1

\* arr.find((q) => q.messageId === messageId): the first element with that
\* anchor, as a sequence of one element, and the empty sequence (undefined)
\* when there is none
findByMessageId(arr, messageId) ==
    IF \E i \in 1..Len(arr) : arr[i].messageId = messageId
    THEN <<arr[CHOOSE i \in 1..Len(arr) :
                 /\ arr[i].messageId = messageId
                 /\ \A j \in 1..(i - 1) : arr[j].messageId # messageId]>>
    ELSE <<>>

NoRow == -1                        \* no element: nothing is scrolled

\* document.querySelectorAll('.msg-row')[idx]: the row at 0-based position idx
\* of a list of n rows, undefined (NoRow) outside 0..n-1
rowAt(n, idx) == IF idx >= 0 /\ idx < n THEN idx ELSE NoRow

-----------------------------------------------------------------------------
(* Seeded data (initialMessages, initialQuestions).                        *)

\* a seeded message belongs to the seeded conversation or to none
SeedTags == {null, SeedConvId(1)}

SeedMessage(i, tag) ==
    [id |-> MsgId(i),
     author |-> IF i % 2 = 1 THEN "user" ELSE "ai",
     text |-> Text(1),
     createdAt |-> i,
     pinned |-> FALSE,
     expanded |-> FALSE,
     conversationId |-> tag]

\* the stores of MaxMsgs messages: the messages of no conversation come
\* first, as the initial messages do, and the messages of the seeded
\* conversation, which were appended to them, follow
SeedStores ==
    {[i \in 1..MaxMsgs |->
          SeedMessage(i, IF i <= k THEN null ELSE SeedConvId(1))] :
        k \in 0..MaxMsgs}

\* the seeded conversation: anchored at the first message, in 'General'
SeedQuestion ==
    [id |-> SeedConvId(1),
     title |-> Text(1),
     folder |-> InitialFolders[1],
     messageId |-> MsgId(1)]

SeedRegistry == <<SeedQuestion>>

\* the same entry without the optional folder (the sidebar lists such an
\* entry under 'Ungrouped')
UngroupedQuestion == [SeedQuestion EXCEPT !.folder = NoFolder]

\* message ids a caller can pass: every seeded message id and MsgId(0), the
\* id of no seeded message
MsgIdInputs == {MsgId(i) : i \in 0..MaxMsgs}
\* the user message an answer belongs to: the anchor of the seeded
\* conversation, or a message outside the seeded store
UserMsgIds == {MsgId(0), MsgId(1)}
\* conversation ids a caller can pass: the seeded one, every id a call can
\* create, and SeedConvId(0), the id of no conversation
ConvIdInputs == {SeedConvId(0), SeedConvId(1)}
                    \cup {QId(t) : t \in 1..MaxClock}

-----------------------------------------------------------------------------
(* Derived values of a render.                                             *)

\* Faulty variant: an open conversation shows the whole store.
visible_Unfiltered(newChatMode, conversationId, store) ==
    IF newChatMode THEN <<>> ELSE store

\* MainApp.tsx:25-29, as a function of the state a render reads
visible(newChatMode, conversationId, store) ==
    IF newChatMode
    THEN <<>>
    ELSE IF conversationId # null
         THEN SelectSeq(store, LAMBDA m : m.conversationId = conversationId)
         ELSE store

\* the displayedMessages of the current render
displayedMessages == visible(isNewChatMode, currentConversationId, messages)

Snapshot ==
    [messages |-> messages,
     questions |-> questions,
     folders |-> folders,
     currentConversationId |-> currentConversationId,
     isNewChatMode |-> isNewChatMode,
     activeFolder |-> activeFolder,
     pending |-> pending]

\* Faulty variant: the pin board is handed the displayed messages.
pinBoardMessages_Displayed(store, view) == view

\* MainApp.tsx:151: the messages prop of PinBoard, given the store and the
\* displayed messages of a render
pinBoardMessages(store, view) == store

\* the pinned messages of a list, in its order (Pin Board Projection)
pinned(list) == SelectSeq(list, LAMBDA m : m.pinned)

\* the pin board of the current render
pinBoard == pinned(pinBoardMessages(messages, displayedMessages))

\* the displayedMessages of the render the last call started from
preDisplayedMessages ==
    visible(pre.isNewChatMode, pre.currentConversationId, pre.messages)

\* the pin board of the render the last call started from
prePinBoard == pinned(pinBoardMessages(pre.messages, preDisplayedMessages))

-----------------------------------------------------------------------------
(* Handlers of MainApp.                                                    *)

\* MainApp.tsx:31-36. The rows of class msg-row are the bubbles ChatArea
\* renders, one per displayed message, in order.
jumpToMessage(id) ==
    LET idx == findIndexById(messages, id)
        el == rowAt(Len(displayedMessages), idx)
    IN  /\ scrolledTo' = el
        /\ returned' = null
        /\ UNCHANGED state

\* Faulty variant: a conversation is created whether or not one is active.
handleNewQuestionAnswer_AlwaysCreate(userMessageId, questionText, dateNow) ==
    LET newQuestionId == QId(dateNow)
        newQuestion ==
            [id |-> newQuestionId,
             title |-> slice(questionText, TitleMax)
                         \o (IF Len(questionText) > TitleMax
                             THEN <<".", ".", ".">> ELSE <<>>),
             folder |-> activeFolder,
             messageId |-> userMessageId]
    IN  /\ isNewChatMode' = FALSE
        /\ questions' = Append(questions, newQuestion)
        /\ currentConversationId' = newQuestionId
        /\ returned' = newQuestionId
        /\ UNCHANGED <<messages, folders, activeFolder>>

\* Faulty variant: the new conversation is filed under 'General'.
handleNewQuestionAnswer_GeneralFolder(userMessageId, questionText, dateNow) ==
    IF currentConversationId # null
    THEN /\ isNewChatMode' = FALSE
         /\ returned' = currentConversationId
         /\ UNCHANGED <<messages, questions, folders, currentConversationId,
                        activeFolder>>
    ELSE LET newQuestionId == QId(dateNow)
             newQuestion ==
                 [id |-> newQuestionId,
                  title |-> slice(questionText, TitleMax)
                              \o (IF Len(questionText) > TitleMax
                                  THEN <<".", ".", ".">> ELSE <<>>),
                  folder |-> "General",
                  messageId |-> userMessageId]
         IN  /\ isNewChatMode' = FALSE
             /\ questions' = Append(questions, newQuestion)
             /\ currentConversationId' = newQuestionId
             /\ returned' = newQuestionId
             /\ UNCHANGED <<messages, folders, activeFolder>>

\* Faulty variant: the marker is added from the limit on, not above it.
handleNewQuestionAnswer_MarkAtLimit(userMessageId, questionText, dateNow) ==
    IF currentConversationId # null
    THEN /\ isNewChatMode' = FALSE
         /\ returned' = currentConversationId
         /\ UNCHANGED <<messages, questions, folders, currentConversationId,
                        activeFolder>>
    ELSE LET newQuestionId == QId(dateNow)
             newQuestion ==
                 [id |-> newQuestionId,
                  title |-> slice(questionText, TitleMax)
                              \o (IF Len(questionText) >= TitleMax
                                  THEN <<".", ".", ".">> ELSE <<>>),
                  folder |-> activeFolder,
                  messageId |-> userMessageId]
         IN  /\ isNewChatMode' = FALSE
             /\ questions' = Append(questions, newQuestion)
             /\ currentConversationId' = newQuestionId
             /\ returned' = newQuestionId
             /\ UNCHANGED <<messages, folders, activeFolder>>

\* MainApp.tsx:42-64, as the prop onNewQuestionAnswer of ChatArea: the state
\* updates the call queues and the id it returns. The call sets no message
\* state, which is left to the caller's own updates of the same batch.
\* dateNow is what Date.now() reads during the call.
onNewQuestionAnswer(userMessageId, questionText, dateNow) ==
    IF currentConversationId # null
    THEN /\ isNewChatMode' = FALSE
         /\ returned' = currentConversationId
         /\ UNCHANGED <<questions, folders, currentConversationId,
                        activeFolder>>
    ELSE LET newQuestionId == QId(dateNow)
             newQuestion ==
                 [id |-> newQuestionId,
                  title |-> slice(questionText, TitleMax)
                              \o (IF Len(questionText) > TitleMax
                                  THEN <<".", ".", ".">> ELSE <<>>),
                  folder |-> activeFolder,
                  messageId |-> userMessageId]
         IN  /\ isNewChatMode' = FALSE
             /\ questions' = Append(questions, newQuestion)
             /\ currentConversationId' = newQuestionId
             /\ returned' = newQuestionId
             /\ UNCHANGED <<folders, activeFolder>>

\* MainApp.tsx:42-64, called on its own: the message store stays as it is
handleNewQuestionAnswer(userMessageId, questionText, dateNow) ==
    /\ onNewQuestionAnswer(userMessageId, questionText, dateNow)
    /\ UNCHANGED messages

\* Faulty variant: starting a new chat empties the message store.
handleNewChat_ClearHistory ==
    /\ currentConversationId' = null
    /\ isNewChatMode' = TRUE
    /\ messages' = <<>>
    /\ returned' = null
    /\ UNCHANGED <<questions, folders, activeFolder>>

\* Faulty variant: the chat area is blanked but the conversation stays
\* selected.
handleNewChat_KeepPointer ==
    /\ isNewChatMode' = TRUE
    /\ returned' = null
    /\ UNCHANGED <<messages, questions, folders, currentConversationId,
                   activeFolder>>

\* Faulty variant: a new chat also falls back to the default folder.
handleNewChat_ResetFolder ==
    /\ currentConversationId' = null
    /\ isNewChatMode' = TRUE
    /\ activeFolder' = "General"
    /\ returned' = null
    /\ UNCHANGED <<messages, questions, folders>>

\* MainApp.tsx:66-71
handleNewChat ==
    /\ currentConversationId' = null
    /\ isNewChatMode' = TRUE
    /\ returned' = null
    /\ UNCHANGED <<messages, questions, folders, activeFolder>>

\* Faulty variant: the active folder is overwritten without the test for a
\* folder.
handleSelectMessage_FolderUnguarded(messageId) ==
    LET conversation == findByMessageId(questions, messageId)
    IN  /\ isNewChatMode' = FALSE
        /\ IF conversation # <<>>
           THEN /\ currentConversationId' = conversation[1].id
                /\ activeFolder' = conversation[1].folder
           ELSE UNCHANGED <<currentConversationId, activeFolder>>
        /\ returned' = null
        /\ UNCHANGED <<messages, questions, folders>>

\* MainApp.tsx:73-87
handleSelectMessage(messageId) ==
    LET conversation == findByMessageId(questions, messageId)
    IN  /\ isNewChatMode' = FALSE
        /\ IF conversation # <<>>
           THEN /\ currentConversationId' = conversation[1].id
                /\ IF conversation[1].folder # NoFolder
                   THEN activeFolder' = conversation[1].folder
                   ELSE UNCHANGED activeFolder
           ELSE UNCHANGED <<currentConversationId, activeFolder>>
        /\ returned' = null
        /\ UNCHANGED <<messages, questions, folders>>

\* Faulty variant: the folder becomes active only when it is new.
handleCreateProject_ActivateNewOnly(projectName) ==
    /\ IF ~includes(folders, projectName)
       THEN /\ folders' = Append(folders, projectName)
            /\ activeFolder' = projectName
       ELSE UNCHANGED <<folders, activeFolder>>
    /\ currentConversationId' = null
    /\ isNewChatMode' = TRUE
    /\ returned' = null
    /\ UNCHANGED <<messages, questions>>

\* Faulty variant: the test for an existing folder is lost.
handleCreateProject_AlwaysAppend(projectName) ==
    /\ folders' = Append(folders, projectName)
    /\ activeFolder' = projectName
    /\ currentConversationId' = null
    /\ isNewChatMode' = TRUE
    /\ returned' = null
    /\ UNCHANGED <<messages, questions>>

\* Faulty variant: the folder becomes active without being added.
handleCreateProject_NotAdded(projectName) ==
    /\ activeFolder' = projectName
    /\ currentConversationId' = null
    /\ isNewChatMode' = TRUE
    /\ returned' = null
    /\ UNCHANGED <<messages, questions, folders>>

\* MainApp.tsx:89-98
handleCreateProject(projectName) ==
    /\ IF ~includes(folders, projectName)
       THEN folders' = Append(folders, projectName)
       ELSE UNCHANGED folders
    /\ activeFolder' = projectName
    /\ currentConversationId' = null
    /\ isNewChatMode' = TRUE
    /\ returned' = null
    /\ UNCHANGED <<messages, questions>>

\* Faulty variant: the test for the id is lost and every title is replaced.
handleRenameQuestion_Every(questionId, newTitle) ==
    /\ questions' = [i \in 1..Len(questions) |->
                         [questions[i] EXCEPT !.title = newTitle]]
    /\ returned' = null
    /\ UNCHANGED <<messages, folders, currentConversationId, isNewChatMode,
                   activeFolder>>

\* MainApp.tsx:100-104
handleRenameQuestion(questionId, newTitle) ==
    /\ questions' = [i \in 1..Len(questions) |->
                         IF questions[i].id = questionId
                         THEN [questions[i] EXCEPT !.title = newTitle]
                         ELSE questions[i]]
    /\ returned' = null
    /\ UNCHANGED <<messages, folders, currentConversationId, isNewChatMode,
                   activeFolder>>

\* Faulty variant: the active-conversation pointer survives the deletion.
handleDeleteQuestion_KeepPointer(questionId) ==
    /\ questions' = SelectSeq(questions, LAMBDA q : q.id # questionId)
    /\ returned' = null
    /\ UNCHANGED <<messages, folders, currentConversationId, isNewChatMode,
                   activeFolder>>

\* Faulty variant: the pointer is reset whatever id is deleted.
handleDeleteQuestion_ResetAlways(questionId) ==
    /\ questions' = SelectSeq(questions, LAMBDA q : q.id # questionId)
    /\ currentConversationId' = null
    /\ returned' = null
    /\ UNCHANGED <<messages, folders, isNewChatMode, activeFolder>>

\* Faulty variant: every deletion opens a new chat.
handleDeleteQuestion_EnterNewChat(questionId) ==
    /\ questions' = SelectSeq(questions, LAMBDA q : q.id # questionId)
    /\ currentConversationId' = null
    /\ isNewChatMode' = TRUE
    /\ returned' = null
    /\ UNCHANGED <<messages, folders, activeFolder>>

\* MainApp.tsx:106-112
handleDeleteQuestion(questionId) ==
    /\ questions' = SelectSeq(questions, LAMBDA q : q.id # questionId)
    /\ IF currentConversationId = questionId
       THEN currentConversationId' = null
       ELSE UNCHANGED currentConversationId
    /\ returned' = null
    /\ UNCHANGED <<messages, folders, isNewChatMode, activeFolder>>

\* MainApp.tsx:52-58: the record a call builds when no conversation is active
newQuestion(userMessageId, questionText, dateNow) ==
    [id |-> QId(dateNow),
     title |-> slice(questionText, TitleMax)
                 \o (IF Len(questionText) > TitleMax
                     THEN <<".", ".", ".">> ELSE <<>>),
     folder |-> activeFolder,
     messageId |-> userMessageId]

\* MainApp.tsx:42-64, called twice from the same render: both calls read the
\* currentConversationId and activeFolder of that render (MainApp.tsx:47,
\* 56); React applies the queued updates in order, the functional update of
\* questions (MainApp.tsx:60) once per call, and the last value set for
\* currentConversationId stands (MainApp.tsx:61). returned holds both
\* return values.
handleNewQuestionAnswerTwice(first, second, questionText, dateNow1, dateNow2) ==
    IF currentConversationId # null
    THEN /\ isNewChatMode' = FALSE
         /\ returned' = <<currentConversationId, currentConversationId>>
         /\ UNCHANGED <<messages, questions, folders, currentConversationId,
                        activeFolder>>
    ELSE LET q1 == newQuestion(first, questionText, dateNow1)
             q2 == newQuestion(second, questionText, dateNow2)
         IN  /\ isNewChatMode' = FALSE
             /\ questions' = Append(Append(questions, q1), q2)
             /\ currentConversationId' = q2.id
             /\ returned' = <<q1.id, q2.id>>
             /\ UNCHANGED <<messages, folders, activeFolder>>

-----------------------------------------------------------------------------
(* Handlers of ChatArea on the message store. setMessages is MainApp's     *)
(* setter (MainApp.tsx:141): the updater runs on the whole store, not on   *)
(* the displayed messages.                                                 *)

\* Faulty variant: the expanded message is rebuilt without its pin.
toggleExpand_Unpins(id) ==
    /\ messages' = [i \in 1..Len(messages) |->
                        IF messages[i].id = id
                        THEN [messages[i] EXCEPT
                                  !.expanded = ~messages[i].expanded,
                                  !.pinned = FALSE]
                        ELSE messages[i]]
    /\ returned' = null
    /\ UNCHANGED <<questions, folders, currentConversationId, isNewChatMode,
                   activeFolder>>

\* ChatArea.tsx:31-33
toggleExpand(id) ==
    /\ messages' = [i \in 1..Len(messages) |->
                        IF messages[i].id = id
                        THEN [messages[i] EXCEPT !.expanded = ~messages[i].expanded]
                        ELSE messages[i]]
    /\ returned' = null
    /\ UNCHANGED <<questions, folders, currentConversationId, isNewChatMode,
                   activeFolder>>

\* Faulty variant: the button pins, and never unpins.
togglePin_PinOnly(id) ==
    /\ messages' = [i \in 1..Len(messages) |->
                        IF messages[i].id = id
                        THEN [messages[i] EXCEPT !.pinned = TRUE]
                        ELSE messages[i]]
    /\ returned' = null
    /\ UNCHANGED <<questions, folders, currentConversationId, isNewChatMode,
                   activeFolder>>

\* Faulty variant: the test for the id is lost and every message is flipped.
togglePin_Every(id) ==
    /\ messages' = [i \in 1..Len(messages) |->
                        [messages[i] EXCEPT !.pinned = ~messages[i].pinned]]
    /\ returned' = null
    /\ UNCHANGED <<questions, folders, currentConversationId, isNewChatMode,
                   activeFolder>>

\* ChatArea.tsx:34-36
togglePin(id) ==
    /\ messages' = [i \in 1..Len(messages) |->
                        IF messages[i].id = id
                        THEN [messages[i] EXCEPT !.pinned = ~messages[i].pinned]
                        ELSE messages[i]]
    /\ returned' = null
    /\ UNCHANGED <<questions, folders, currentConversationId, isNewChatMode,
                   activeFolder>>

-----------------------------------------------------------------------------
(* Handlers of ChatArea with side effects only. Their messages are the     *)
(* messages prop of ChatArea, the displayed messages (MainApp.tsx:140).    *)
(* returned holds what the call ends in: outcome "none" is a silent        *)
(* return, "rejected" a failure that reaches the caller; number is the     *)
(* display number the composer is given.                                   *)

ClipboardStates == {"granted", "denied", "absent"}
ShareStates == {"resolves", "rejects", "absent"}

Outcome(outcome, number) == [outcome |-> outcome, number |-> number]

\* Faulty variant: the clipboard write is not wrapped in try/catch.
copy_Uncaught(id, clipboard) ==
    /\ returned' =
           IF findIndexById(displayedMessages, id) = -1
           THEN Outcome("none", 0)
           ELSE IF clipboard = "granted"
                THEN Outcome("written", 0)
                ELSE Outcome("rejected", 0)
    /\ UNCHANGED state

\* ChatArea.tsx:37-41. clipboard is the state of navigator.clipboard: a
\* denied write rejects and an absent clipboard throws, both inside the try
\* block.
copy(id, clipboard) ==
    /\ returned' =
           IF findIndexById(displayedMessages, id) = -1
           THEN Outcome("none", 0)
           ELSE IF clipboard = "granted"
                THEN Outcome("written", 0)
                ELSE Outcome("none", 0)
    /\ UNCHANGED state

\* ChatArea.tsx:42-48, with the numbering of ChatArea.tsx:29: the composer
\* is given the message and its number 8 + i
reply(id) ==
    LET i == findIndexById(displayedMessages, id)
    IN  /\ returned' = IF i = -1
                       THEN Outcome("none", 0)
                       ELSE Outcome("quoted", 8 + i)
        /\ UNCHANGED state

\* ChatArea.tsx:49-54. platform is the state of navigator.share: a rejected
\* share is caught, an absent one is reported by an alert.
share(id, platform) ==
    /\ returned' =
           IF findIndexById(displayedMessages, id) = -1
           THEN Outcome("none", 0)
           ELSE IF platform = "absent"
                THEN Outcome("unsupported", 0)
                ELSE IF platform = "resolves"
                     THEN Outcome("shared", 0)
                     ELSE Outcome("none", 0)
    /\ UNCHANGED state

-----------------------------------------------------------------------------
(* Sending a message and applying its reply (sections 5 and 6 of the       *)
(* design): every request in flight carries the conversation id it was     *)
(* issued for, and a reply is applied only while that id is still the      *)
(* active one. The network client always completes: sendToN8n catches its  *)
(* errors and returns a result (part_001:110-120).                         *)

\* a message appended to the store: its id is the next unused one
newMessage(author, text, tag) ==
    [id |-> MsgId(Len(messages) + 1),
     author |-> author,
     text |-> text,
     createdAt |-> Len(messages) + 1,
     pinned |-> FALSE,
     expanded |-> FALSE,
     conversationId |-> tag]

\* the user submits text: the user message is appended under the active
\* conversation (none in a new chat) and the request is issued for it
send(text) ==
    LET userMessage == newMessage("user", text, currentConversationId)
    IN  /\ messages' = Append(messages, userMessage)
        /\ pending' = pending \cup
                          {[conversationId |-> currentConversationId,
                            userMessageId |-> userMessage.id,
                            text |-> text]}
        /\ returned' = null
        /\ UNCHANGED <<questions, folders, currentConversationId,
                       isNewChatMode, activeFolder, sessionStorage,
                       localStorage>>

\* Faulty variant: the reply is applied without the test for staleness.
applyReply_Unguarded(request, replyText, dateNow) ==
    /\ pending' = pending \ {request}
    /\ UNCHANGED <<sessionStorage, localStorage>>
    /\ onNewQuestionAnswer(request.userMessageId, request.text, dateNow)
    /\ messages' =
           Append([i \in 1..Len(messages) |->
                       IF messages[i].id = request.userMessageId
                       THEN [messages[i] EXCEPT !.conversationId = returned']
                       ELSE messages[i]],
                  newMessage("ai", replyText, returned'))

\* the reply to request completes: a stale reply is dropped; otherwise the
\* answer is recorded (onNewQuestionAnswer) and the ai message is appended
\* under the id that call returns, as is the user message it answers
applyReply(request, replyText, dateNow) ==
    /\ pending' = pending \ {request}
    /\ UNCHANGED <<sessionStorage, localStorage>>
    /\ IF request.conversationId # currentConversationId
       THEN /\ returned' = null
            /\ UNCHANGED state
       ELSE /\ onNewQuestionAnswer(request.userMessageId, request.text,
                                   dateNow)
            /\ messages' =
                   Append([i \in 1..Len(messages) |->
                               IF messages[i].id = request.userMessageId
                               THEN [messages[i] EXCEPT
                                         !.conversationId = returned']
                               ELSE messages[i]],
                          newMessage("ai", replyText, returned'))

-----------------------------------------------------------------------------
(* The outbound send of the n8n service: sendToN8n and apiCall. A call is  *)
(* given the outcome of the network request; its result is the settled     *)
(* promise: fulfilled with a success or a failure value, or rejected.      *)

undefined == <<>>

\* a value is truthy unless it is undefined or the empty string
truthy(v) == v # undefined /\ v # <<"">>

Error(message) == [isError |-> TRUE, message |-> message]
NotAnError == [isError |-> FALSE, message |-> ""]

\* the body of a response: text that is not JSON, or the JSON value null, a
\* string, a number, or an object with some of the four members read
Body(kind, string, output, text, response, message) ==
    [kind |-> kind, string |-> string, output |-> output, text |-> text,
     response |-> response, message |-> message]

MemberValues(name) == {undefined, <<"">>, <<"the " \o name>>}

Bodies ==
    {Body("unparsable", "", undefined, undefined, undefined, undefined),
     Body("null", "", undefined, undefined, undefined, undefined),
     Body("number", "", undefined, undefined, undefined, undefined)}
    \cup {Body("string", s, undefined, undefined, undefined, undefined) :
              s \in {"", "the body"}}
    \cup {Body("object", "", o, t, r, m) :
              o \in MemberValues("output"), t \in MemberValues("text"),
              r \in MemberValues("response"), m \in MemberValues("message")}

\* the outcome of fetch: it rejects with a thrown value, or resolves with a
\* response of some status and body
Rejects(error) ==
    [kind |-> "rejects", error |-> error, status |-> 0,
     body |-> Body("unparsable", "", undefined, undefined, undefined,
                   undefined)]
Response(status, body) ==
    [kind |-> "response", error |-> NotAnError, status |-> status,
     body |-> body]

NetworkOutcomes ==
    {Rejects(Error("Failed to fetch")), Rejects(NotAnError)}
    \cup {Response(500, b) : b \in {bb \in Bodies : bb.kind = "unparsable"}}
    \cup {Response(200, b) : b \in Bodies}

\* response.ok
ok(response) == response.status \in 200..299

RECURSIVE join(_)
join(members) ==
    IF Len(members) = 0 THEN ""
    ELSE IF Len(members) = 1 THEN Head(members)
    ELSE Head(members) \o "," \o join(Tail(members))

\* JSON.stringify of a parsed body that is not a string
stringify(data) ==
    IF data.kind = "number" THEN "0"
    ELSE LET member(name, v) == "\"" \o name \o "\":\"" \o v[1] \o "\""
             all == <<<<"output", data.output>>, <<"text", data.text>>,
                      <<"response", data.response>>,
                      <<"message", data.message>>>>
             present == SelectSeq(all, LAMBDA p : p[2] # undefined)
         IN  "{" \o join([i \in 1..Len(present) |->
                              member(present[i][1], present[i][2])])
                 \o "}"

Fulfilled(success, output, message, code) ==
    [settled |-> "fulfilled", success |-> success, output |-> output,
     message |-> message, code |-> code]
Rejected(error) ==
    [settled |-> "rejected", success |-> FALSE, output |-> undefined,
     message |-> <<error.message>>, code |-> undefined]

\* the catch block of sendToN8n
sendToN8n_catch(error) ==
    Fulfilled(FALSE, undefined,
              IF error.isError
              THEN <<error.message>>
              ELSE <<"Failed to connect to n8n RAG service">>,
              undefined)

\* the statements of sendToN8n after the test of response.ok
sendToN8n_read(network) ==
    IF network.body.kind = "unparsable"
    THEN sendToN8n_catch(Error("Unexpected token in JSON"))
    ELSE IF network.body.kind = "null"
    THEN sendToN8n_catch(Error("Cannot read properties of null"))
    ELSE LET data == network.body
             output ==
                 IF truthy(data.output) THEN data.output
                 ELSE IF truthy(data.text) THEN data.text
                 ELSE IF truthy(data.response) THEN data.response
                 ELSE IF truthy(data.message) THEN data.message
                 ELSE IF data.kind = "string" THEN <<data.string>>
                 ELSE <<stringify(data)>>
         IN  Fulfilled(TRUE, output, undefined, undefined)

\* Faulty variant: the status of the response is tested outside the try
\* block.
sendToN8n_StatusUncaught(message, sessionId, network) ==
    IF network.kind = "rejects"
    THEN sendToN8n_catch(network.error)
    ELSE IF ~ok(network)
    THEN Rejected(Error("n8n webhook error: " \o ToString(network.status)))
    ELSE sendToN8n_read(network)

sendToN8n(message, sessionId, network) ==
    IF network.kind = "rejects"
    THEN sendToN8n_catch(network.error)
    ELSE IF ~ok(network)
    THEN sendToN8n_catch(
             Error("n8n webhook error: " \o ToString(network.status)))
    ELSE sendToN8n_read(network)

apiCall(inputData, network) ==
    LET result == sendToN8n(inputData.input, inputData.sessionId, network)
    IN  IF result.settled = "rejected"
        THEN Fulfilled(FALSE, undefined, result.message, <<"NETWORK_ERROR">>)
        ELSE IF result.success /\ truthy(result.output)
        THEN Fulfilled(TRUE, result.output, undefined, undefined)
        ELSE Fulfilled(FALSE, undefined,
                       IF truthy(result.message)
                       THEN result.message
                       ELSE <<"Unknown error">>,
                       <<"N8N_ERROR">>)

-----------------------------------------------------------------------------
(* Session management and authentication of the n8n service, on the items  *)
(* of sessionStorage and localStorage. An item is null or a stored value.  *)

\* `session_${Date.now()}_${Math.random()...}` and its user counterpart
SessionId(dateNow, random) == <<"session", dateNow, random>>
UserId(dateNow, random) == <<"user", dateNow, random>>

Emails == {"", "user@example.com"}
Passwords == {"", "secret"}
Names == {"", "Ann"}

getUserId(store, dateNow, random) ==
    IF store.userId = null
    THEN [store EXCEPT !.userId = UserId(dateNow, random)]
    ELSE store

\* Faulty variant: an id is created on every call.
getSessionId_AlwaysNew(dateNow, random) ==
    /\ sessionStorage' =
           [sessionStorage EXCEPT !.sessionId = SessionId(dateNow, random)]
    /\ returned' = SessionId(dateNow, random)

getSessionId(dateNow, random) ==
    LET sessionId == sessionStorage.sessionId
    IN  IF sessionId = null
        THEN /\ sessionStorage' =
                    [sessionStorage EXCEPT
                         !.sessionId = SessionId(dateNow, random)]
             /\ returned' = SessionId(dateNow, random)
        ELSE /\ sessionStorage' = sessionStorage
             /\ returned' = sessionId

clearSession ==
    sessionStorage' = [sessionStorage EXCEPT !.sessionId = null]

simpleLogin(email, password, dateNow, random) ==
    IF email # "" /\ password # ""
    THEN /\ localStorage' =
                getUserId([localStorage EXCEPT
                               !.isAuthenticated = <<"true">>,
                               !.userEmail = <<email>>],
                          dateNow, random)
         /\ returned' = TRUE
    ELSE /\ localStorage' = localStorage
         /\ returned' = FALSE

simpleSignup(email, password, name, dateNow, random) ==
    IF email # "" /\ password # ""
    THEN /\ localStorage' =
                getUserId([localStorage EXCEPT
                               !.isAuthenticated = <<"true">>,
                               !.userEmail = <<email>>,
                               !.userName = IF name # "" THEN <<name>>
                                            ELSE @],
                          dateNow, random)
         /\ returned' = TRUE
    ELSE /\ localStorage' = localStorage
         /\ returned' = FALSE

logout ==
    /\ localStorage' = [localStorage EXCEPT !.isAuthenticated = null,
                                            !.userEmail = null,
                                            !.userName = null]
    /\ clearSession

\* MainApp.tsx:114-117: the logout button of the workspace
handleLogout ==
    localStorage' = [localStorage EXCEPT !.isAuthenticated = null]

-----------------------------------------------------------------------------
(* The session: one handler call per step.                                 *)

Call(op, id, text, name) ==
    /\ lastOp' = [op |-> op, id |-> id, text |-> text, name |-> name]
    /\ pre' = Snapshot
    /\ pending' = pending
    /\ UNCHANGED <<sessionStorage, localStorage>>

\* the storage of a browser session that has stored nothing yet
NoItems ==
    /\ sessionStorage = [sessionId |-> null]
    /\ localStorage = [isAuthenticated |-> null, userEmail |-> null,
                       userName |-> null, userId |-> null]

Init ==
    /\ messages \in SeedStores
    /\ questions = SeedRegistry
    /\ folders = InitialFolders
    /\ currentConversationId = null
    /\ isNewChatMode = TRUE
    /\ activeFolder = "General"
    /\ pending = {}
    /\ NoItems
    /\ returned = null
    /\ scrolledTo = NoRow
    /\ lastOp = [op |-> "init", id |-> null, text |-> <<>>, name |-> ""]
    /\ pre = Snapshot

RecordAnswer ==
    \E u \in UserMsgIds, t \in Texts, dateNow \in 1..MaxClock :
        /\ currentConversationId = null => Len(questions) < MaxQuestions
        /\ handleNewQuestionAnswer(u, t, dateNow)
        /\ scrolledTo' = NoRow
        /\ Call("recordAnswer", u, t, "")

StartNewChat ==
    /\ handleNewChat
    /\ scrolledTo' = NoRow
    /\ Call("startNewChat", null, <<>>, "")

OpenHistoryItem ==
    \E m \in MsgIdInputs :
        /\ handleSelectMessage(m)
        /\ scrolledTo' = NoRow
        /\ Call("openHistoryItem", m, <<>>, "")

CreateProject ==
    \E name \in ProjectNames :
        /\ handleCreateProject(name)
        /\ scrolledTo' = NoRow
        /\ Call("createProject", null, <<>>, name)

RenameConversation ==
    \E c \in ConvIdInputs, t \in NewTitles :
        /\ handleRenameQuestion(c, t)
        /\ scrolledTo' = NoRow
        /\ Call("renameConversation", c, t, "")

DeleteConversation ==
    \E c \in ConvIdInputs :
        /\ handleDeleteQuestion(c)
        /\ scrolledTo' = NoRow
        /\ Call("deleteConversation", c, <<>>, "")

JumpToMessage ==
    \E m \in MsgIdInputs :
        /\ jumpToMessage(m)
        /\ Call("jumpToMessage", m, <<>>, "")

Next ==
    \/ RecordAnswer
    \/ StartNewChat
    \/ OpenHistoryItem
    \/ CreateProject
    \/ RenameConversation
    \/ DeleteConversation
    \/ JumpToMessage

Spec == Init /\ [][Next]_vars

\* The session of the message flags: pin and expand buttons and the calls
\* that change the mode.
ToggleExpand ==
    \E m \in MsgIdInputs :
        /\ toggleExpand(m)
        /\ scrolledTo' = NoRow
        /\ Call("toggleExpand", m, <<>>, "")

TogglePin ==
    \E m \in MsgIdInputs :
        /\ togglePin(m)
        /\ scrolledTo' = NoRow
        /\ Call("togglePin", m, <<>>, "")

NextStore ==
    \/ TogglePin
    \/ ToggleExpand
    \/ StartNewChat
    \/ OpenHistoryItem

SpecStore == Init /\ [][NextStore]_vars

\* The session of the titles: answers to questions of many lengths, new
\* chats and deletions.
\* the session starts with a store of messages of no conversation
InitTitle ==
    /\ Init
    /\ \A i \in 1..Len(messages) : messages[i].conversationId = null

\* the answered user message is one outside the seeded store
RecordLongAnswer ==
    \E t \in QuestionTexts, dateNow \in 1..MaxClock :
        /\ currentConversationId = null => Len(questions) < MaxQuestions
        /\ handleNewQuestionAnswer(MsgId(0), t, dateNow)
        /\ scrolledTo' = NoRow
        /\ Call("recordAnswer", MsgId(0), t, "")

NextTitle ==
    \/ RecordLongAnswer
    \/ StartNewChat
    \/ DeleteConversation

SpecTitle == InitTitle /\ [][NextTitle]_vars

\* The session of the replies: messages are sent and answered while the
\* user starts new chats, opens and deletes conversations.
Send ==
    \E t \in Texts :
        /\ Len(messages) + 2 <= MaxStore
        /\ send(t)
        /\ scrolledTo' = NoRow
        /\ lastOp' = [op |-> "send", id |-> currentConversationId,
                      text |-> t, name |-> ""]
        /\ pre' = Snapshot

ReplyArrives ==
    \E request \in pending, replyText \in ReplyTexts, dateNow \in 1..MaxClock :
        /\ (request.conversationId = null /\ currentConversationId = null)
               => Len(questions) < MaxQuestions
        /\ applyReply(request, replyText, dateNow)
        /\ scrolledTo' = NoRow
        /\ lastOp' = [op |-> "replyArrived", id |-> request.conversationId,
                      text |-> replyText, name |-> ""]
        /\ pre' = Snapshot

NextReply ==
    \/ Send
    \/ ReplyArrives
    \/ StartNewChat
    \/ OpenHistoryItem
    \/ DeleteConversation

SpecReply == Init /\ [][NextReply]_vars

\* The session whose seeded conversation has no folder.
InitUngrouped ==
    /\ messages \in SeedStores
    /\ questions = <<UngroupedQuestion>>
    /\ folders = InitialFolders
    /\ currentConversationId = null
    /\ isNewChatMode = TRUE
    /\ activeFolder = "General"
    /\ pending = {}
    /\ NoItems
    /\ returned = null
    /\ scrolledTo = NoRow
    /\ lastOp = [op |-> "init", id |-> null, text |-> <<>>, name |-> ""]
    /\ pre = Snapshot

SpecUngrouped == InitUngrouped /\ [][Next]_vars

\* The session over a store of messages of no conversation.
SpecRegistry == InitTitle /\ [][Next]_vars

\* The calls of the outbound send, over the outcomes of the network
\* request.
SessionIdInputs == {"session_1_abc"}

SendToN8n ==
    \E t \in Texts, sessionId \in SessionIdInputs,
       network \in NetworkOutcomes :
        /\ returned' = sendToN8n(t, sessionId, network)
        /\ scrolledTo' = NoRow
        /\ UNCHANGED state
        /\ Call("sendToN8n", sessionId, network, "")

ApiCall ==
    \E t \in Texts, sessionId \in SessionIdInputs,
       network \in NetworkOutcomes :
        /\ returned' = apiCall([input |-> t, sessionId |-> sessionId],
                               network)
        /\ scrolledTo' = NoRow
        /\ UNCHANGED state
        /\ Call("apiCall", sessionId, network, "")

NextSend ==
    \/ SendToN8n
    \/ ApiCall

SpecSend == Init /\ [][NextSend]_vars

\* The browser session: ids are asked for while the user logs in and out
\* and the session is cleared.
\* text is the session id item the call found stored
ServiceCall(op, id) ==
    /\ lastOp' = [op |-> op, id |-> id, text |-> sessionStorage.sessionId,
                  name |-> ""]
    /\ pre' = Snapshot
    /\ scrolledTo' = NoRow
    /\ UNCHANGED <<state, pending>>

GetSessionId ==
    \E dateNow \in 1..MaxClock, random \in 1..MaxRandom :
        /\ getSessionId(dateNow, random)
        /\ UNCHANGED localStorage
        /\ ServiceCall("getSessionId", SessionId(dateNow, random))

ClearSession ==
    /\ clearSession
    /\ returned' = null
    /\ UNCHANGED localStorage
    /\ ServiceCall("clearSession", null)

SimpleLogin ==
    \E email \in Emails, password \in Passwords,
       dateNow \in 1..MaxClock, random \in 1..MaxRandom :
        /\ simpleLogin(email, password, dateNow, random)
        /\ UNCHANGED sessionStorage
        /\ ServiceCall("simpleLogin", null)

SimpleSignup ==
    \E email \in Emails, password \in Passwords, name \in Names,
       dateNow \in 1..MaxClock, random \in 1..MaxRandom :
        /\ simpleSignup(email, password, name, dateNow, random)
        /\ UNCHANGED sessionStorage
        /\ ServiceCall("simpleSignup", null)

Logout ==
    /\ logout
    /\ returned' = null
    /\ ServiceCall("logout", null)

HandleLogout ==
    /\ handleLogout
    /\ returned' = null
    /\ UNCHANGED sessionStorage
    /\ ServiceCall("handleLogout", null)

NextSession ==
    \/ GetSessionId
    \/ ClearSession
    \/ SimpleLogin
    \/ SimpleSignup
    \/ Logout
    \/ HandleLogout

SpecSession == InitTitle /\ [][NextSession]_vars

\* The session of the message menu: copy, reply and share on the messages
\* of the view, and the calls that change the view.
Copy ==
    \E m \in MsgIdInputs, clipboard \in ClipboardStates :
        /\ copy(m, clipboard)
        /\ scrolledTo' = NoRow
        /\ Call("copy", m, <<>>, clipboard)

Reply ==
    \E m \in MsgIdInputs :
        /\ reply(m)
        /\ scrolledTo' = NoRow
        /\ Call("reply", m, <<>>, "")

Share ==
    \E m \in MsgIdInputs, platform \in ShareStates :
        /\ share(m, platform)
        /\ scrolledTo' = NoRow
        /\ Call("share", m, <<>>, platform)

NextMenu ==
    \/ Copy
    \/ Reply
    \/ Share
    \/ TogglePin
    \/ StartNewChat
    \/ OpenHistoryItem

SpecMenu == Init /\ [][NextMenu]_vars

\* The session in which two answers can be recorded from one render: the
\* clock does not run backwards between the two calls.
RecordAnswerBackToBack ==
    \E u1 \in UserMsgIds, u2 \in UserMsgIds, t \in Texts,
       dateNow1 \in 1..MaxClock, dateNow2 \in 1..MaxClock :
        /\ dateNow1 <= dateNow2
        /\ currentConversationId = null => Len(questions) < MaxQuestions
        /\ handleNewQuestionAnswerTwice(u1, u2, t, dateNow1, dateNow2)
        /\ scrolledTo' = NoRow
        /\ Call("recordAnswerTwice", u2, t, "")

NextBatch ==
    \/ RecordAnswer
    \/ RecordAnswerBackToBack
    \/ StartNewChat
    \/ OpenHistoryItem
    \/ DeleteConversation

SpecBatch == InitTitle /\ [][NextBatch]_vars

-----------------------------------------------------------------------------
(* Vocabulary of the properties.                                           *)

RouterOps == {"startNewChat", "recordAnswer", "openHistoryItem",
              "createProject", "renameConversation", "deleteConversation"}

\* the modes of a React state st (the current one, or the snapshot pre)
NewChat(st) == st.isNewChatMode
Active(st) == ~st.isNewChatMode /\ st.currentConversationId # null
AllHistory(st) == ~st.isNewChatMode /\ st.currentConversationId = null

InRegistry(registry, c) == \E i \in 1..Len(registry) : registry[i].id = c
IsAnchor(registry, m) == \E i \in 1..Len(registry) : registry[i].messageId = m
InView(view, m) == \E i \in 1..Len(view) : view[i].id = m

\* 0-based position of message m in a view that holds it
PositionIn(view, m) == (CHOOSE i \in 1..Len(view) : view[i].id = m) - 1

\* the messages of store tagged with conversation c, in store order
RECURSIVE ConversationMessages(_, _)
ConversationMessages(store, c) ==
    IF store = <<>>
    THEN <<>>
    ELSE (IF Head(store).conversationId = c THEN <<Head(store)>> ELSE <<>>)
             \o ConversationMessages(Tail(store), c)

\* the messages of store whose pinned flag is set, in store order
RECURSIVE PinnedMessages(_)
PinnedMessages(store) ==
    IF store = <<>>
    THEN <<>>
    ELSE (IF Head(store).pinned THEN <<Head(store)>> ELSE <<>>)
             \o PinnedMessages(Tail(store))

\* the ellipsis marker of a truncated title
Ellipsis == <<".", ".", ".">>

\* the ids of the messages of a list
IdsOf(list) == {list[i].id : i \in 1..Len(list)}

\* the records of registry whose id is not c, in registry order
RECURSIVE WithoutId(_, _)
WithoutId(registry, c) ==
    IF registry = <<>>
    THEN <<>>
    ELSE (IF Head(registry).id # c THEN <<Head(registry)>> ELSE <<>>)
             \o WithoutId(Tail(registry), c)

\* a sequence without repeated elements
NoDuplicates(seq) == \A i, j \in 1..Len(seq) : seq[i] = seq[j] => i = j

-----------------------------------------------------------------------------
(* Properties.                                                             *)

\* C1: a recordAnswer call made in Active(c) returns c, leaves the registry
\* as it was and leaves the session in Active(c), so that any number of such
\* calls in a row creates no conversation.
C1_AnswerInActiveReturnsSame ==
    (lastOp.op = "recordAnswer" /\ Active(pre))
        => /\ returned = pre.currentConversationId
           /\ questions = pre.questions
           /\ currentConversationId = pre.currentConversationId
           /\ ~isNewChatMode

C1_Witness ==
    /\ lastOp.op = "recordAnswer"
    /\ Active(pre)
    /\ returned = pre.currentConversationId
    /\ Len(questions) > 0

\* C2: deleteConversation(c) in Active(c) removes c from the registry and
\* leaves the session in NewChat: no conversation selected and nothing
\* visible.
C2_DeleteActiveGoesNewChat ==
    (lastOp.op = "deleteConversation" /\ Active(pre)
        /\ lastOp.id = pre.currentConversationId)
        => /\ ~InRegistry(questions, lastOp.id)
           /\ isNewChatMode
           /\ currentConversationId = null
           /\ displayedMessages = <<>>

\* C3: whenever the active-conversation pointer is some c, a conversation
\* with id c is in the registry.
C3_PointerInRegistry ==
    currentConversationId # null => InRegistry(questions, currentConversationId)

C3_Witness ==
    /\ lastOp.op = "deleteConversation"
    /\ Len(questions) < Len(pre.questions)
    /\ currentConversationId # null
    /\ InRegistry(questions, currentConversationId)

\* C4: recordAnswer(userMessageId, questionText) in NewChat appends exactly
\* one conversation, anchored at userMessageId and filed under the active
\* folder, makes it the active conversation and returns its id.
C4_AnswerInNewChatCreates ==
    (lastOp.op = "recordAnswer" /\ NewChat(pre))
        => /\ Len(questions) = Len(pre.questions) + 1
           /\ SubSeq(questions, 1, Len(pre.questions)) = pre.questions
           /\ questions[Len(questions)].messageId = lastOp.id
           /\ questions[Len(questions)].folder = pre.activeFolder
           /\ ~isNewChatMode
           /\ currentConversationId = questions[Len(questions)].id
           /\ returned = currentConversationId

C4_Witness ==
    /\ lastOp.op = "recordAnswer"
    /\ NewChat(pre)
    /\ pre.activeFolder = "Research"
    /\ Len(questions) = Len(pre.questions) + 1
    /\ questions[Len(questions)].folder = "Research"
    /\ returned = currentConversationId

\* C5: the registry gains a record only by a recordAnswer call made in
\* NewChat; no other call, and no recordAnswer in Active(c) or in
\* all-history, creates a conversation.
C5_CreatedOnlyInNewChat ==
    Len(questions) > Len(pre.questions)
        => (lastOp.op = "recordAnswer" /\ NewChat(pre))

\* C6: a jump to a message that is not in the visible sequence scrolls to
\* nothing, also when the message is elsewhere in the store.
C6_JumpOutsideViewNotFound ==
    (lastOp.op = "jumpToMessage" /\ ~InView(preDisplayedMessages, lastOp.id))
        => scrolledTo = NoRow

\* C7: a jump to a message at position k of the visible sequence scrolls to
\* row k of that sequence, in every mode.
C7_JumpTargetsViewPosition ==
    (lastOp.op = "jumpToMessage" /\ InView(preDisplayedMessages, lastOp.id))
        => scrolledTo = PositionIn(preDisplayedMessages, lastOp.id)

\* C8: openHistoryItem(messageId) for a messageId that anchors no
\* conversation leaves mode, pointer, active folder, registry, folders and
\* message store as they were.
C8_OpenUnknownChangesNothing ==
    (lastOp.op = "openHistoryItem" /\ ~IsAnchor(pre.questions, lastOp.id))
        => /\ isNewChatMode = pre.isNewChatMode
           /\ currentConversationId = pre.currentConversationId
           /\ activeFolder = pre.activeFolder
           /\ questions = pre.questions
           /\ folders = pre.folders
           /\ messages = pre.messages

\* C9: no router operation changes the message store: after startNewChat,
\* recordAnswer, openHistoryItem, createProject, renameConversation or
\* deleteConversation the store holds the same messages in the same order.
C9_RouterKeepsStore ==
    lastOp.op \in RouterOps => messages = pre.messages

C9_Witness ==
    /\ lastOp.op = "startNewChat"
    /\ preDisplayedMessages # <<>>
    /\ displayedMessages = <<>>
    /\ messages = pre.messages
    /\ messages # <<>>

\* C10: the visible sequence is empty in NewChat, the store-order
\* subsequence of the messages tagged c in Active(c), and the whole store
\* in all-history.
C10_VisibleSequence ==
    /\ isNewChatMode => displayedMessages = <<>>
    /\ (~isNewChatMode /\ currentConversationId # null)
           => displayedMessages
                  = ConversationMessages(messages, currentConversationId)
    /\ (~isNewChatMode /\ currentConversationId = null)
           => displayedMessages = messages

C10_Witness ==
    /\ ~isNewChatMode
    /\ currentConversationId # null
    /\ Len(displayedMessages) > 0
    /\ Len(displayedMessages) < Len(messages)
    /\ displayedMessages[1] # messages[1]

\* C11: in every reachable state, new-chat mode on implies that no
\* conversation is selected.
C11_NewChatHasNoPointer ==
    isNewChatMode => currentConversationId = null

C11_Witness ==
    /\ lastOp.op = "startNewChat"
    /\ Active(pre)
    /\ isNewChatMode
    /\ currentConversationId = null

C13_AfterCreateProject ==
    lastOp.op = "createProject"
        => /\ activeFolder = lastOp.name
           /\ isNewChatMode
           /\ currentConversationId = null

C13_AnswerAfterCreateProject ==
    (lastOp.op = "createProject" /\ lastOp'.op = "recordAnswer")
        => /\ Len(questions') = Len(questions) + 1
           /\ questions'[Len(questions')].folder = lastOp.name

C13_CreateProjectThenAnswer ==
    [](C13_AfterCreateProject) /\ [][C13_AnswerAfterCreateProject]_vars

C13_Witness ==
    /\ lastOp.op = "createProject"
    /\ lastOp.name = "General"
    /\ Active(pre)
    /\ pre.activeFolder = "Research"
    /\ activeFolder = "General"
    /\ isNewChatMode
    /\ Len(questions) < MaxQuestions

\* C14 as claimed: openHistoryItem(messageId) for the anchor of a
\* conversation c leaves the session in Active(c) with activeFolder equal to
\* the folder of c.
C14_OpenAnchorActivates ==
    (lastOp.op = "openHistoryItem" /\ IsAnchor(pre.questions, lastOp.id))
        => /\ ~isNewChatMode
           /\ \E i \in 1..Len(pre.questions) :
                  /\ pre.questions[i].messageId = lastOp.id
                  /\ currentConversationId = pre.questions[i].id
                  /\ activeFolder = pre.questions[i].folder

\* C14 as amended: openHistoryItem(messageId) for the anchor of a
\* conversation c leaves the session in Active(c); activeFolder becomes the
\* folder of c when c has one and keeps its value when c has none.
C14_OpenAnchorActivatesFolderIfAny ==
    (lastOp.op = "openHistoryItem" /\ IsAnchor(pre.questions, lastOp.id))
        => /\ ~isNewChatMode
           /\ \E i \in 1..Len(pre.questions) :
                  /\ pre.questions[i].messageId = lastOp.id
                  /\ currentConversationId = pre.questions[i].id
                  /\ activeFolder = IF pre.questions[i].folder # NoFolder
                                    THEN pre.questions[i].folder
                                    ELSE pre.activeFolder

C14_Witness ==
    /\ lastOp.op = "openHistoryItem"
    /\ NewChat(pre)
    /\ pre.activeFolder = "Research"
    /\ currentConversationId = SeedConvId(1)
    /\ questions[1] = UngroupedQuestion
    /\ activeFolder = "Research"

\* C15: a second togglePin(id) right after a togglePin(id), and a second
\* toggleExpand(id) right after a toggleExpand(id), leaves the message store
\* exactly as it was before the first of the two calls.
C15_SecondToggleRestores ==
    (/\ lastOp.op \in {"togglePin", "toggleExpand"}
     /\ lastOp'.op = lastOp.op
     /\ lastOp'.id = lastOp.id)
        => messages' = pre.messages

C15_DoubleToggleRestores == [][C15_SecondToggleRestores]_vars

C15_Witness ==
    /\ lastOp.op = "togglePin"
    /\ \E i \in 1..Len(messages) :
           /\ messages[i].id = lastOp.id
           /\ pre.messages[i].pinned
           /\ ~messages[i].pinned
           /\ messages[i].expanded

\* C16: one togglePin(id) on a message of the store changes the number of
\* pinned messages by exactly one, up or down, and changes the pinned flag
\* of no other message.
C16_TogglePinChangesOne ==
    (lastOp.op = "togglePin" /\ lastOp.id \in IdsOf(pre.messages))
        => /\ Len(messages) = Len(pre.messages)
           /\ LET n == Len(PinnedMessages(messages))
                  n0 == Len(PinnedMessages(pre.messages))
              IN  n = n0 + 1 \/ n = n0 - 1
           /\ \A i \in 1..Len(messages) :
                  messages[i].id # lastOp.id
                      => messages[i].pinned = pre.messages[i].pinned

C16_Witness ==
    /\ lastOp.op = "togglePin"
    /\ lastOp.id \in IdsOf(pre.messages)
    /\ Len(PinnedMessages(pre.messages)) = 1
    /\ Len(PinnedMessages(messages)) = 2

\* C17: the pin board holds the pinned messages of the whole store in store
\* order, in every mode, and a call that changes the mode or opens another
\* conversation leaves the pin board as it was.
C17_PinBoardWholeStore ==
    /\ pinBoard = PinnedMessages(messages)
    /\ lastOp.op \in {"startNewChat", "openHistoryItem"}
           => pinBoard = prePinBoard

C17_Witness ==
    /\ lastOp.op = "openHistoryItem"
    /\ Active(pre) \/ AllHistory(pre)
    /\ displayedMessages # preDisplayedMessages
    /\ Len(pinBoard) = 2
    /\ \E i \in 1..Len(pinBoard) : ~InView(displayedMessages, pinBoard[i].id)

\* C18: the conversation ids of the registry are pairwise distinct, also
\* when two conversations were created at the same reading of Date.now().
C18_ConversationIdsDistinct ==
    \A i, j \in 1..Len(questions) :
        questions[i].id = questions[j].id => i = j

\* C19: the title of a created conversation is the question text itself
\* when the text has at most 80 characters, and its first 80 characters
\* followed by the ellipsis marker when it has more.
C19_TitleDerivation ==
    (lastOp.op = "recordAnswer" /\ Len(questions) = Len(pre.questions) + 1)
        => LET text == lastOp.text
               title == questions[Len(questions)].title
           IN  IF Len(text) <= TitleMax
               THEN title = text
               ELSE /\ Len(title) = TitleMax + Len(Ellipsis)
                    /\ \A i \in 1..TitleMax : title[i] = text[i]
                    /\ \A i \in 1..Len(Ellipsis) :
                           title[TitleMax + i] = Ellipsis[i]

C19_Witness ==
    /\ lastOp.op = "recordAnswer"
    /\ Len(questions) = Len(pre.questions) + 1
    /\ Len(lastOp.text) = 100
    /\ Len(questions[Len(questions)].title) = TitleMax + Len(Ellipsis)
    /\ \E i \in 1..Len(pre.questions) : Len(pre.questions[i].title) = TitleMax

\* C20: startNewChat, from any state, yields NewChat with no conversation
\* selected and leaves message store, registry, folders and active folder
\* unchanged.
C20_StartNewChatFrame ==
    lastOp.op = "startNewChat"
        => /\ isNewChatMode
           /\ currentConversationId = null
           /\ messages = pre.messages
           /\ questions = pre.questions
           /\ folders = pre.folders
           /\ activeFolder = pre.activeFolder

C20_Witness ==
    /\ lastOp.op = "startNewChat"
    /\ Active(pre)
    /\ pre.activeFolder = "Research"
    /\ activeFolder = "Research"
    /\ isNewChatMode

\* C21: deleteConversation(id) for an id that is not in the registry leaves
\* registry, mode, pointer and everything else as they were; after any
\* deleteConversation(id) no record with that id is left, so that a second
\* deletion of the same id is such a call.
C21_DeleteUnknownChangesNothing ==
    lastOp.op = "deleteConversation"
        => /\ ~InRegistry(questions, lastOp.id)
           /\ ~InRegistry(pre.questions, lastOp.id)
                  => /\ questions = pre.questions
                     /\ isNewChatMode = pre.isNewChatMode
                     /\ currentConversationId = pre.currentConversationId
                     /\ activeFolder = pre.activeFolder
                     /\ folders = pre.folders
                     /\ messages = pre.messages

C21_Witness ==
    /\ lastOp.op = "deleteConversation"
    /\ ~InRegistry(pre.questions, lastOp.id)
    /\ Active(pre)
    /\ currentConversationId = pre.currentConversationId
    /\ Len(questions) = MaxQuestions

\* C22: the folder directory never holds a name twice; createProject(name)
\* leaves the directory as it was when name is in it and appends name at the
\* end when it is not.
C22_FoldersEnsure ==
    /\ NoDuplicates(folders)
    /\ lastOp.op = "createProject"
           => folders = IF includes(pre.folders, lastOp.name)
                        THEN pre.folders
                        ELSE pre.folders \o <<lastOp.name>>

C22_Witness ==
    /\ lastOp.op = "createProject"
    /\ lastOp.name = "Research"
    /\ includes(pre.folders, "Research")
    /\ folders = InitialFolders \o <<"Research">>

\* C24: renameConversation(id, newTitle) gives the records with that id the
\* title newTitle and changes nothing else: ids, folders, anchors, the other
\* records, the registry order, mode and pointer are as before; for an
\* unknown id nothing changes.
C24_RenameFrame ==
    lastOp.op = "renameConversation"
        => /\ Len(questions) = Len(pre.questions)
           /\ \A i \in 1..Len(questions) :
                  /\ questions[i].id = pre.questions[i].id
                  /\ questions[i].folder = pre.questions[i].folder
                  /\ questions[i].messageId = pre.questions[i].messageId
                  /\ questions[i].title = IF questions[i].id = lastOp.id
                                          THEN lastOp.text
                                          ELSE pre.questions[i].title
           /\ isNewChatMode = pre.isNewChatMode
           /\ currentConversationId = pre.currentConversationId
           /\ activeFolder = pre.activeFolder
           /\ folders = pre.folders
           /\ messages = pre.messages

C24_Witness ==
    /\ lastOp.op = "renameConversation"
    /\ Len(questions) = 2
    /\ questions[1].id = lastOp.id
    /\ questions[2].id # lastOp.id
    /\ questions[1].title # pre.questions[1].title
    /\ questions[2] = pre.questions[2]

\* C29: activeFolder is always a name of the folder directory, and so is
\* the folder of every conversation of the registry (the seeded one is in
\* the initial directory).
C29_ActiveFolderInDirectory ==
    /\ includes(folders, activeFolder)
    /\ \A i \in 1..Len(questions) : includes(folders, questions[i].folder)

C29_Witness ==
    /\ lastOp.op = "recordAnswer"
    /\ Len(questions) = Len(pre.questions) + 1
    /\ questions[Len(questions)].folder = "Research"
    /\ ~includes(InitialFolders, "Research")
    /\ includes(folders, "Research")

\* C30: deleteConversation(id) for a conversation of the registry that is
\* not the active one leaves mode, pointer, activeFolder and the visible
\* sequence as they were and removes exactly the records with that id.
C30_DeleteOtherFrame ==
    (/\ lastOp.op = "deleteConversation"
     /\ InRegistry(pre.questions, lastOp.id)
     /\ pre.currentConversationId # lastOp.id)
        => /\ isNewChatMode = pre.isNewChatMode
           /\ currentConversationId = pre.currentConversationId
           /\ activeFolder = pre.activeFolder
           /\ displayedMessages = preDisplayedMessages
           /\ questions = WithoutId(pre.questions, lastOp.id)

C30_Witness ==
    /\ lastOp.op = "deleteConversation"
    /\ InRegistry(pre.questions, lastOp.id)
    /\ Active(pre)
    /\ pre.currentConversationId # lastOp.id
    /\ Len(questions) = Len(pre.questions) - 1
    /\ Len(displayedMessages) = 1

\* C23: togglePin(id) and toggleExpand(id) change the named flag of the
\* messages with that id and nothing else: length and order of the store,
\* every id, author, text, timestamp and conversation tag, the other flag
\* and all other messages are as before; for an id that is not in the store
\* the store is as before.
C23_ToggleFrame ==
    lastOp.op \in {"togglePin", "toggleExpand"}
        => /\ Len(messages) = Len(pre.messages)
           /\ \A i \in 1..Len(messages) :
                  LET m == messages[i]
                      m0 == pre.messages[i]
                  IN  /\ m.id = m0.id
                      /\ m.author = m0.author
                      /\ m.text = m0.text
                      /\ m.createdAt = m0.createdAt
                      /\ m.conversationId = m0.conversationId
                      /\ m.pinned = IF lastOp.op = "togglePin" /\ m0.id = lastOp.id
                                    THEN ~m0.pinned ELSE m0.pinned
                      /\ m.expanded = IF lastOp.op = "toggleExpand"
                                         /\ m0.id = lastOp.id
                                      THEN ~m0.expanded ELSE m0.expanded
           /\ lastOp.id \notin IdsOf(pre.messages) => messages = pre.messages

C23_Witness ==
    /\ lastOp.op = "toggleExpand"
    /\ \E i \in 1..Len(messages) :
           /\ messages[i].id = lastOp.id
           /\ messages[i].pinned
           /\ messages[i].expanded
           /\ ~pre.messages[i].expanded
    /\ \E i \in 1..Len(messages) :
           messages[i].id # lastOp.id /\ messages[i] = pre.messages[i]

\* C26: recordAnswer from NewChat is one transition: the one conversation it
\* adds is the active one in the state that follows, and two calls made
\* back to back, the second before the state update of the first is seen,
\* still add one conversation and return the same id.
C26_AnswerIsOneTransition ==
    (lastOp.op \in {"recordAnswer", "recordAnswerTwice"} /\ NewChat(pre))
        => /\ Len(questions) = Len(pre.questions) + 1
           /\ questions[Len(questions)].id = currentConversationId
           /\ lastOp.op = "recordAnswerTwice"
                  => /\ returned[1] = returned[2]
                     /\ returned[2] = currentConversationId

\* C25: copy(id), reply(id) and share(id) leave the message store (and the
\* rest of the session state) as it was and end in a defined outcome, never
\* in a failure that reaches the caller: a denied or absent clipboard and a
\* rejected share end silently, an absent share capability is reported,
\* and an id that is not in the view ends silently.
C25_MenuActionsAreSafe ==
    lastOp.op \in {"copy", "reply", "share"}
        => /\ messages = pre.messages
           /\ questions = pre.questions
           /\ currentConversationId = pre.currentConversationId
           /\ isNewChatMode = pre.isNewChatMode
           /\ returned.outcome
                  \in {"none", "written", "quoted", "shared", "unsupported"}
           /\ ~InView(preDisplayedMessages, lastOp.id)
                  => returned.outcome = "none"
           /\ (InView(preDisplayedMessages, lastOp.id) /\ lastOp.op = "copy")
                  => returned.outcome = IF lastOp.name = "granted"
                                        THEN "written" ELSE "none"
           /\ (InView(preDisplayedMessages, lastOp.id) /\ lastOp.op = "share")
                  => returned.outcome = IF lastOp.name = "absent"
                                        THEN "unsupported"
                                        ELSE IF lastOp.name = "resolves"
                                             THEN "shared" ELSE "none"

C25_Witness ==
    /\ lastOp.op = "copy"
    /\ lastOp.name = "denied"
    /\ InView(preDisplayedMessages, lastOp.id)
    /\ returned.outcome = "none"
    /\ \E i \in 1..Len(messages) : messages[i].pinned
    /\ messages = pre.messages

\* C27: every call of sendToN8n and of apiCall is fulfilled, never rejected,
\* with one of two values: a success that carries the reply text and no
\* error, or a failure that carries a non-empty error message and no text.
\* A rejected fetch, a status that is not OK and a body that cannot be read
\* give a failure; a success of apiCall carries a non-empty text, so an
\* empty output is a failure there.
C27_SendAlwaysSettles ==
    lastOp.op \in {"sendToN8n", "apiCall"}
        => /\ returned.settled = "fulfilled"
           /\ returned.success
                  => /\ returned.output # undefined
                     /\ returned.message = undefined
           /\ ~returned.success
                  => /\ returned.output = undefined
                     /\ truthy(returned.message)
           /\ (\/ lastOp.text.kind = "rejects"
               \/ ~ok(lastOp.text)
               \/ lastOp.text.body.kind \in {"unparsable", "null"})
                  => ~returned.success
           /\ (lastOp.op = "apiCall" /\ returned.success)
                  => truthy(returned.output)

C27_Witness ==
    /\ lastOp.op = "apiCall"
    /\ lastOp.text.kind = "response"
    /\ ok(lastOp.text)
    /\ lastOp.text.body.kind = "string"
    /\ lastOp.text.body.string = ""
    /\ ~returned.success
    /\ returned.message = <<"Unknown error">>

ServiceOps ==
    {"getSessionId", "clearSession", "simpleLogin", "simpleSignup", "logout",
     "handleLogout"}

\* C28: getSessionId returns the stored session id and leaves it as it is
\* whenever one is stored, and creates one only when none is stored; the
\* stored id changes only by being removed by clearSession or logout, or by
\* being created by getSessionId when there was none. So two calls return
\* different ids only with a clearSession or a logout between them.
C28_SessionIdStable ==
    /\ lastOp.op = "getSessionId"
           => /\ returned # null
              /\ returned = sessionStorage.sessionId
              /\ lastOp.text # null => returned = lastOp.text
    /\ lastOp.op \in ServiceOps
           => (sessionStorage.sessionId # lastOp.text
                  => \/ /\ lastOp.op \in {"clearSession", "logout"}
                        /\ sessionStorage.sessionId = null
                     \/ /\ lastOp.op = "getSessionId"
                        /\ lastOp.text = null)
    /\ lastOp.op \notin ServiceOps => sessionStorage.sessionId = null

C28_Witness ==
    /\ lastOp.op = "getSessionId"
    /\ lastOp.text # null
    /\ lastOp.id # lastOp.text
    /\ returned = lastOp.text
    /\ localStorage.isAuthenticated = null
    /\ localStorage.userId # null

====
